---- MODULE Spec2Model ----
(***************************************************************************)
(* A model of main.py: the in-memory fetch cache (fetch_with_cache), the   *)
(* channel filter, the stream join, the refresh pipeline (fetch_channels), *)
(* the APScheduler job (refresh_data) and the catalog / stream handlers.   *)
(*                                                                         *)
(* Two threads run the pipeline: "sched", the scheduler's job thread, and  *)
(* "w1", which first runs the initial load of the __main__ block and then  *)
(* serves HTTP queries.  Every read or write of the shared dictionaries    *)
(* `cache` and `cache_expiry` and of a cached channel dict is one step,    *)
(* so the threads interleave between the source lines exactly where the    *)
(* interpreter may switch threads.                                         *)
(***************************************************************************)
EXTENDS Integers, Sequences, FiniteSets, TLC

\* ------------------------------------------------------------ constants
IPTV_CHANNELS_URL == "channels.json"
IPTV_STREAMS_URL == "streams.json"
FETCH_INTERVAL == 300
CACHE_TTL == 600

\* The horizon of the wall clock, and the sizes of the inputs of the pure
\* functions.
MaxTime == 600
MaxChans == 2
MaxStreams == 3

URLS == {IPTV_CHANNELS_URL, IPTV_STREAMS_URL}
None == "None"
Threads == {"sched", "w1"}

\* The clock is read at the instants the scheduler fires.
TickLen == FETCH_INTERVAL

\* ------------------------------------------------- python dict / list
\* d.get(k, dflt)
Get(d, k, dflt) == IF k \in DOMAIN d THEN d[k] ELSE dflt

\* d[k] = v
Put(d, k, v) == [x \in DOMAIN d \cup {k} |-> IF x = k THEN v ELSE d[x]]

\* x in list
Contains(list, x) == \E i \in 1..Len(list) : list[i] = x

\* any(x in list for x in items)
RECURSIVE AnyIn(_, _)
AnyIn(items, list) ==
    IF items = <<>> THEN FALSE
    ELSE Contains(list, Head(items)) \/ AnyIn(Tail(items), list)

\* ------------------------------------------------------------- filter
\* The filter policy of the module: the three lists the filter reads.
ModulePolicy ==
    [countries |-> <<>>,
     languages |-> <<"fars", "spa", "ron", "rus", "fra", "deu", "eng">>,
     excluded  |-> <<>>]

\* The body of the loop of filter_channels: the three matches of one channel.
country_match(channel, pol) ==
    IF pol.countries # <<>>
    THEN Contains(pol.countries, Get(channel, "country", ""))
    ELSE TRUE

\* The language test with all() in the place of any().
language_match_all(channel, pol) ==
    /\ Get(channel, "languages", <<>>) # <<>>
    /\ \A i \in 1..Len(Get(channel, "languages", <<>>)) :
          Contains(pol.languages, Get(channel, "languages", <<>>)[i])

language_match(channel, pol) ==
    AnyIn(Get(channel, "languages", <<>>), pol.languages)

category_match(channel, pol) ==
    ~AnyIn(Get(channel, "categories", <<>>), pol.excluded)

channel_passes(channel, pol) ==
    country_match(channel, pol) /\ language_match(channel, pol)
        /\ category_match(channel, pol)

\* The positions of the channels that filter_channels appends to `filtered`,
\* in the order of the loop.
\* The loop of lines 58-70 putting each kept channel in front of the ones
\* kept before it.
RECURSIVE KeptFrom_Reversed(_, _, _)
KeptFrom_Reversed(channels, i, pol) ==
    IF i > Len(channels) THEN <<>>
    ELSE KeptFrom_Reversed(channels, i + 1, pol)
             \o (IF channel_passes(channels[i], pol) THEN <<i>> ELSE <<>>)

RECURSIVE KeptFrom(_, _, _)
KeptFrom(channels, i, pol) ==
    IF i > Len(channels) THEN <<>>
    ELSE (IF channel_passes(channels[i], pol) THEN <<i>> ELSE <<>>)
             \o KeptFrom(channels, i + 1, pol)

Kept(channels, pol) == KeptFrom(channels, 1, pol)

\* filter_channels: the list of the kept channel dicts (the same dicts).
filter_channels(channels, pol) ==
    [j \in 1..Len(Kept(channels, pol)) |-> channels[Kept(channels, pol)[j]]]

\* --------------------------------------------------------------- join
\* [stream for stream in streams if stream.get('channel') == channel.get('id')]
RECURSIVE channel_streams(_, _)
channel_streams(channel, streams) ==
    IF streams = <<>> THEN <<>>
    ELSE (IF Get(Head(streams), "channel", None) = Get(channel, "id", None)
          THEN <<Head(streams)>> ELSE <<>>)
             \o channel_streams(channel, Tail(streams))

\* The body of the loop of match_streams_to_channels: the channel dict after
\* `if channel_streams: channel['streams'] = channel_streams`.
JoinOne(channel, streams) ==
    IF channel_streams(channel, streams) # <<>>
    THEN Put(channel, "streams", channel_streams(channel, streams))
    ELSE channel

\* match_streams_to_channels: the same list, each dict updated in place.
match_streams_to_channels(channels, streams) ==
    [i \in 1..Len(channels) |-> JoinOne(channels[i], streams)]

\* ----------------------------------------------------------- handlers
\* The metas of catalog(): one summary per channel of the view.
catalog_metas(view) ==
    [i \in 1..Len(view) |->
        [id     |-> Get(view[i], "id", None),
         type   |-> "tv",
         name   |-> Get(view[i], "name", None),
         poster |-> Get(view[i], "logo", None),
         genres |-> Get(view[i], "categories", <<>>)]]

\* The streams_data of stream(): title (default 'Stream') and url.
streams_data(streams) ==
    [i \in 1..Len(streams) |->
        [title |-> Get(streams[i], "title", "Stream"),
         url   |-> Get(streams[i], "url", None)]]

\* The loop of stream(): the first channel of the view whose id is `id`
\* answers; no such channel answers with the empty list.
RECURSIVE stream_lookup(_, _)
stream_lookup(view, id) ==
    IF view = <<>> THEN <<>>
    ELSE IF Get(Head(view), "id", None) = id
         THEN streams_data(Get(Head(view), "streams", <<>>))
         ELSE stream_lookup(Tail(view), id)

\* ----------------------------------------------------------- upstream
\* What the two upstream resources can answer.  A channel list is a list of
\* dicts; keys a record lacks are absent from the dict.
ChannelVersions == {"c_full", "c_none"}
StreamVersions == {"s_a", "s_b"}

ChannelsJson(v) ==
    IF v = "c_full"
    THEN << [id |-> "ch1", name |-> "One", country |-> "US",
             languages |-> <<"eng">>, categories |-> <<>>],
            [id |-> "ch2", name |-> "Two", languages |-> <<"jpn">>] >>
    ELSE << >>

StreamsJson(v) ==
    IF v = "s_a"
    THEN << [channel |-> "ch1", url |-> "http://a", title |-> "A"],
            [channel |-> "ch1", url |-> "http://b"] >>
    ELSE << [channel |-> "ch3", url |-> "http://c"] >>

Versions(u) == IF u = IPTV_CHANNELS_URL THEN ChannelVersions ELSE StreamVersions

\* The outcomes of requests.get / raise_for_status / response.json: every one
\* but "ok" raises a requests.exceptions.RequestException.
Outcomes == {"ok", "ConnectionError", "HTTPError", "JSONDecodeError"}

\* -------------------------------------------------------------- state
VARIABLES
    clock,          \* datetime.utcnow(), in seconds since the start
    nextFire,       \* the next run time of the interval job
    running,        \* the process is up and the scheduler is running
    cache,          \* the dict cache: url -> payload (a reference to a list)
    cache_expiry,   \* the dict cache_expiry: url -> expiry time
    heap,           \* the channel lists response.json() built: object -> list
    pc,             \* each thread's position
    loc,            \* each thread's local variables (and, as history, whether
                    \* a fetch of its run fell back on a stale entry that
                    \* has records: degraded)
    whole,          \* history: both halves of the entry come from one fetch
    lastGet,        \* history: what the last call returned, and who called since
    policy,         \* the filter policy in force
    fn              \* the input and output of a pure function applied alone

vars == <<clock, nextFire, running, cache, cache_expiry, heap, pc,
          loc, whole, lastGet, policy, fn>>

\* A list that response.json() returns for the channel resource is a fresh
\* object whose dicts the join later mutates in place.  A list is known only
\* by who references it (the cache, a thread's `data` or `channels`), so its
\* heap cell is named after its first referrer, the cache before the threads:
\* two heaps that differ only in the names of their cells are one state.  A
\* stream list is never mutated, so it is referenced by the name of its
\* version.
ThreadOrder == <<"sched", "w1">>
OwnCell(t) == IF t = "sched" THEN "o_sched" ELSE "o_w1"
Objs == {"o_cache"} \cup {OwnCell(t) : t \in Threads}

Deref(h, ref) ==
    IF ref \in Objs THEN h[ref]
    ELSE IF ref \in StreamVersions THEN StreamsJson(ref)
    ELSE <<>>

\* `not x` of a fetched value: None or an empty list.
Falsy(h, ref) == ref = None \/ Len(Deref(h, ref)) = 0

Holds(l, t, o) == l[t].data = o \/ l[t].channels = o

\* The cell of the list in cell `o` once the references are `c` and `l`;
\* None when nothing references it any more (the list is freed).
CellOf(c, l, o) ==
    IF \E u \in DOMAIN c : c[u] = o THEN "o_cache"
    ELSE IF \E t \in Threads : Holds(l, t, o)
    THEN OwnCell(ThreadOrder[CHOOSE i \in 1..Len(ThreadOrder) :
            /\ Holds(l, ThreadOrder[i], o)
            /\ \A j \in 1..(i - 1) : ~Holds(l, ThreadOrder[j], o)])
    ELSE None

Moved(c, l, ref) == IF ref \in Objs THEN CellOf(c, l, ref) ELSE ref

\* The cache, the locals and the heap after the references changed to `c`
\* and `l`: every list is in the cell of its first referrer.
Relocate(c, l, h) ==
    /\ cache' = [u \in DOMAIN c |-> Moved(c, l, c[u])]
    /\ loc' = [t \in Threads |->
                 [l[t] EXCEPT !.data = Moved(c, l, @), !.channels = Moved(c, l, @)]]
    /\ heap' = [n \in Objs |->
                  IF \E o \in Objs : CellOf(c, l, o) = n
                  THEN h[CHOOSE o \in Objs : CellOf(c, l, o) = n]
                  ELSE <<>>]

NoLocals ==
    [kind |-> "none", id |-> None, url |-> None, now |-> 0, data |-> None,
     channels |-> None, streams |-> None, filtered |-> <<>>,
     resp |-> [status |-> 0], exc |-> "none", degraded |-> FALSE]

NoGet == [seen |-> FALSE, val |-> <<>>, since |-> {}]

NoFn == [op |-> "none"]

\* The state once the module is imported: empty dicts, the scheduler started.
ProgramInit ==
    /\ clock = 0
    /\ nextFire = FETCH_INTERVAL
    /\ running = TRUE
    /\ cache = <<>>
    /\ cache_expiry = <<>>
    /\ heap = [o \in Objs |-> <<>>]
    /\ pc = [t \in Threads |-> IF t = "w1" THEN "main" ELSE "idle"]
    /\ loc = [t \in Threads |-> NoLocals]
    /\ whole = [u \in URLS |-> TRUE]
    /\ lastGet = [u \in URLS |-> NoGet]

Init ==
    /\ ProgramInit
    /\ policy = ModulePolicy
    /\ fn = NoFn

\* ------------------------------------------------------------ threads
U(t) == loc[t].url

\* Thread t runs: the process is up, or it is going down through
\* graceful_shutdown, where scheduler.shutdown() waits for the job that is
\* executing before the process ends.
Alive(t) == IF running THEN TRUE ELSE t = "sched" /\ pc[t] # "idle"

\* Where a run continues once fetch_channels has returned: a query builds
\* its response, the initial load and refresh_data only print.
AfterPipeline(kind) == IF kind \in {"catalog", "stream"} THEN "respond" ELSE "done"

\* fetch_channels, lines 92-99: the caller of fetch_with_cache takes the
\* value returned; `if not channels: return []`, `if not streams: return []`.
\* fetch_channels turning to the stream resource whatever the channel call
\* returned.
ResumeLoc_NoGuard(t, val) ==
    IF U(t) = IPTV_CHANNELS_URL
    THEN [loc[t] EXCEPT !.channels = val, !.data = None, !.now = 0,
              !.url = IPTV_STREAMS_URL]
    ELSE [loc[t] EXCEPT !.streams = val, !.data = None, !.now = 0]

ResumeLoc(t, val) ==
    IF U(t) = IPTV_CHANNELS_URL
    THEN [loc[t] EXCEPT !.channels = val, !.data = None, !.now = 0,
              !.url = IF Falsy(heap, val) THEN @ ELSE IPTV_STREAMS_URL]
    ELSE [loc[t] EXCEPT !.streams = val, !.data = None, !.now = 0]

ResumePc(t, val) ==
    IF Falsy(heap, val) THEN AfterPipeline(loc[t].kind)
    ELSE IF U(t) = IPTV_CHANNELS_URL THEN "L27" ELSE "L101"

\* The record of a completed fetch_with_cache that returned the list `ref`.
Got(ref) == [seen |-> TRUE, val |-> Deref(heap, ref), since |-> {}]

StartPipeline(t, kind, id) ==
    /\ pc' = [pc EXCEPT ![t] = "L27"]
    /\ loc' = [loc EXCEPT ![t] =
                 [NoLocals EXCEPT !.kind = kind, !.id = id, !.url = IPTV_CHANNELS_URL]]

\* __main__, lines 196-204: the initial load, before the app serves.
MainLoad ==
    /\ running /\ pc["w1"] = "main"
    /\ StartPipeline("w1", "init", None)
    /\ UNCHANGED <<clock, nextFire, running, cache, cache_expiry, heap,
                   whole, lastGet, policy, fn>>

\* catalog(type, id), lines 160-176.
Catalog(type, id) ==
    /\ running /\ pc["w1"] = "idle"
    /\ IF type = "tv" /\ id = "iptv_catalog"
       THEN StartPipeline("w1", "catalog", id)
       ELSE /\ pc' = [pc EXCEPT !["w1"] = "done"]
            /\ loc' = [loc EXCEPT !["w1"] =
                         [NoLocals EXCEPT !.kind = "catalog", !.id = id,
                              !.resp = [status |-> 200, metas |-> <<>>]]]
    /\ UNCHANGED <<clock, nextFire, running, cache, cache_expiry, heap,
                   whole, lastGet, policy, fn>>

\* stream(type, id), lines 178-193.
Stream(type, id) ==
    /\ running /\ pc["w1"] = "idle"
    /\ IF type = "tv"
       THEN StartPipeline("w1", "stream", id)
       ELSE /\ pc' = [pc EXCEPT !["w1"] = "done"]
            /\ loc' = [loc EXCEPT !["w1"] =
                         [NoLocals EXCEPT !.kind = "stream", !.id = id,
                              !.resp = [status |-> 200, streams |-> <<>>]]]
    /\ UNCHANGED <<clock, nextFire, running, cache, cache_expiry, heap,
                   whole, lastGet, policy, fn>>

\* The interval job, lines 123-125: at each run time the scheduler starts
\* refresh_data, unless the previous run is still executing (one instance of
\* a job at a time), and sets the next run time one interval later.
Fire ==
    /\ running /\ clock >= nextFire
    /\ nextFire' = nextFire + FETCH_INTERVAL
    /\ IF pc["sched"] = "idle"
       THEN StartPipeline("sched", "refresh", None)
       ELSE UNCHANGED <<pc, loc>>
    /\ UNCHANGED <<clock, running, cache, cache_expiry, heap,
                   whole, lastGet, policy, fn>>

\* Time passes, up to the next run time of the job.
Tick ==
    /\ running /\ clock < nextFire /\ clock + TickLen <= MaxTime
    /\ clock' = clock + TickLen
    /\ UNCHANGED <<nextFire, running, cache, cache_expiry, heap, pc,
                   loc, whole, lastGet, policy, fn>>

\* line 27: now = datetime.utcnow()
L27(t) ==
    /\ Alive(t) /\ pc[t] = "L27"
    /\ loc' = [loc EXCEPT ![t].now = clock]
    /\ pc' = [pc EXCEPT ![t] = "L30"]
    /\ lastGet' = [lastGet EXCEPT ![U(t)].since =
                      IF lastGet[U(t)].seen THEN @ \cup {t} ELSE @]
    /\ UNCHANGED <<clock, nextFire, running, cache, cache_expiry, heap,
                   whole, policy, fn>>

\* refresh_data without its try/except: the exception ends the thread of the
\* scheduler.
Raise_Propagates(t) ==
    /\ loc' = [loc EXCEPT ![t].exc = "KeyError"]
    /\ pc' = [pc EXCEPT ![t] = "crashed"]
    /\ running' = (running /\ loc[t].kind # "init")

\* A KeyError leaves fetch_with_cache and fetch_channels: refresh_data
\* catches it (line 119), a query handler does not (the response is a 500),
\* and in __main__ it ends the process through graceful_shutdown (line 211).
Raise(t) ==
    /\ loc' = [loc EXCEPT ![t].exc = "KeyError",
                   ![t].resp = IF loc[t].kind \in {"catalog", "stream"}
                               THEN [status |-> 500] ELSE @]
    /\ pc' = [pc EXCEPT ![t] = IF loc[t].kind = "init" THEN "crashed" ELSE "done"]
    /\ running' = (running /\ loc[t].kind # "init")

\* lines 36-38: requests.get, raise_for_status, data = response.json().  The
\* request touches no shared state, so it is taken in the step of the test
\* that leads to it; `version` is what the upstream resource, which may
\* change at any moment, answers this time.
Request(t, outcome, version) ==
    IF outcome = "ok"
    THEN /\ pc' = [pc EXCEPT ![t] = "L39"]
         /\ IF U(t) = IPTV_CHANNELS_URL
            THEN /\ loc' = [loc EXCEPT ![t].data = OwnCell(t)]
                 /\ heap' = [heap EXCEPT ![OwnCell(t)] =
                                ChannelsJson(version)]
            ELSE /\ loc' = [loc EXCEPT ![t].data = version]
                 /\ UNCHANGED heap
    ELSE /\ pc' = [pc EXCEPT ![t] = "L45"]
         /\ UNCHANGED <<loc, heap>>

\* line 30: if url in cache and cache_expiry[url] > now
L30(t, outcome, version) ==
    /\ Alive(t) /\ pc[t] = "L30"
    /\ IF U(t) \notin DOMAIN cache
       THEN Request(t, outcome, version) /\ UNCHANGED running
       ELSE IF U(t) \notin DOMAIN cache_expiry
       THEN Raise(t) /\ UNCHANGED heap
       ELSE IF cache_expiry[U(t)] > loc[t].now
       THEN /\ pc' = [pc EXCEPT ![t] = "L32"]
            /\ UNCHANGED <<loc, heap, running>>
       ELSE Request(t, outcome, version) /\ UNCHANGED running
    /\ UNCHANGED <<clock, nextFire, cache, cache_expiry,
                   whole, lastGet, policy, fn>>

\* line 32: return cache[url]
L32(t) ==
    /\ Alive(t) /\ pc[t] = "L32"
    /\ loc' = [loc EXCEPT ![t] = ResumeLoc(t, cache[U(t)])]
    /\ pc' = [pc EXCEPT ![t] = ResumePc(t, cache[U(t)])]
    /\ lastGet' = [lastGet EXCEPT ![U(t)] = Got(cache[U(t)])]
    /\ UNCHANGED <<clock, nextFire, running, cache, cache_expiry, heap,
                   whole, policy, fn>>

\* line 39: cache[url] = data
L39(t) ==
    /\ Alive(t) /\ pc[t] = "L39"
    /\ Relocate(Put(cache, U(t), loc[t].data), loc, heap)
    /\ whole' = [whole EXCEPT ![U(t)] = FALSE]
    /\ lastGet' = [lastGet EXCEPT ![U(t)] = NoGet]
    /\ pc' = [pc EXCEPT ![t] = "L40"]
    /\ UNCHANGED <<clock, nextFire, running, cache_expiry, policy, fn>>

\* lines 40-42: cache_expiry[url] = now + timedelta(seconds=CACHE_TTL);
\* return data
L40(t) ==
    /\ Alive(t) /\ pc[t] = "L40"
    /\ cache_expiry' = Put(cache_expiry, U(t), loc[t].now + CACHE_TTL)
    /\ whole' = [whole EXCEPT ![U(t)] = (cache[U(t)] = loc[t].data)]
    /\ loc' = [loc EXCEPT ![t] = ResumeLoc(t, loc[t].data)]
    /\ pc' = [pc EXCEPT ![t] = ResumePc(t, loc[t].data)]
    /\ lastGet' = [lastGet EXCEPT ![U(t)] =
                      Got(loc[t].data)]
    /\ UNCHANGED <<clock, nextFire, running, cache, heap, policy, fn>>

\* The except branch returning None whatever the cache holds.
L45_NoFallback(t) ==
    /\ Alive(t) /\ pc[t] = "L45"
    /\ loc' = [loc EXCEPT ![t] = ResumeLoc(t, None)]
    /\ pc' = [pc EXCEPT ![t] = ResumePc(t, None)]
    /\ lastGet' = [lastGet EXCEPT ![U(t)] = Got(None)]
    /\ UNCHANGED <<clock, nextFire, running, cache, cache_expiry, heap,
                   whole, policy, fn>>

\* The except branch renewing the expiry of the entry it falls back on.
L45_ExtendsExpiry(t) ==
    /\ Alive(t) /\ pc[t] = "L45"
    /\ loc' = [loc EXCEPT ![t] = ResumeLoc(t, Get(cache, U(t), None))]
    /\ pc' = [pc EXCEPT ![t] = ResumePc(t, Get(cache, U(t), None))]
    /\ lastGet' = [lastGet EXCEPT ![U(t)] = Got(Get(cache, U(t), None))]
    /\ cache_expiry' = IF U(t) \in DOMAIN cache
                       THEN Put(cache_expiry, U(t), loc[t].now + CACHE_TTL)
                       ELSE cache_expiry
    /\ UNCHANGED <<clock, nextFire, running, cache, heap, whole, policy, fn>>

\* The except branch returning cache[url], a KeyError when there is no entry.
L45_Subscript(t) ==
    /\ Alive(t) /\ pc[t] = "L45"
    /\ IF U(t) \in DOMAIN cache
       THEN /\ loc' = [loc EXCEPT ![t] = ResumeLoc(t, cache[U(t)])]
            /\ pc' = [pc EXCEPT ![t] = ResumePc(t, cache[U(t)])]
            /\ lastGet' = [lastGet EXCEPT ![U(t)] = Got(cache[U(t)])]
            /\ UNCHANGED running
       ELSE Raise(t) /\ UNCHANGED lastGet
    /\ UNCHANGED <<clock, nextFire, cache, cache_expiry, heap,
                   whole, policy, fn>>

\* lines 43-45: except RequestException: return cache.get(url, None)
L45(t) ==
    /\ Alive(t) /\ pc[t] = "L45"
    /\ loc' = [loc EXCEPT ![t] =
                 [ResumeLoc(t, Get(cache, U(t), None)) EXCEPT !.degraded =
                      @ \/ ( /\ U(t) \in DOMAIN cache
                              /\ ~Falsy(heap, cache[U(t)])
                              /\ U(t) \in DOMAIN cache_expiry
                              /\ cache_expiry[U(t)] <= loc[t].now )]]
    /\ pc' = [pc EXCEPT ![t] = ResumePc(t, Get(cache, U(t), None))]
    /\ lastGet' = [lastGet EXCEPT ![U(t)] =
                      Got(Get(cache, U(t), None))]
    /\ UNCHANGED <<clock, nextFire, running, cache, cache_expiry, heap,
                   whole, policy, fn>>

\* The dicts of a thread's filtered list, as they are in the heap now.
ViewOf(h, l) ==
    IF l.channels \in Objs
    THEN [j \in 1..Len(l.filtered) |-> h[l.channels][l.filtered[j]]]
    ELSE <<>>

\* The list object `o` after the dicts at `positions` are replaced by `dicts`.
WriteBack(list, positions, dicts) ==
    [i \in 1..Len(list) |->
        IF \E j \in 1..Len(positions) : positions[j] = i
        THEN dicts[CHOOSE j \in 1..Len(positions) : positions[j] = i]
        ELSE list[i]]

\* lines 101-109: filtered_channels = filter_channels(channels), a new list
\* of the kept dicts of the fetched list (held by their positions in it);
\* return match_streams_to_channels(filtered_channels, streams), which
\* assigns channel['streams'] in those dicts.
L101(t) ==
    /\ Alive(t) /\ pc[t] = "L101"
    /\ loc' = [loc EXCEPT ![t].filtered = Kept(heap[loc[t].channels], policy)]
    /\ heap' = [heap EXCEPT ![loc[t].channels] =
                   WriteBack(@, loc'[t].filtered,
                       match_streams_to_channels(ViewOf(heap, loc'[t]),
                           Deref(heap, loc[t].streams)))]
    /\ pc' = [pc EXCEPT ![t] = AfterPipeline(loc[t].kind)]
    /\ UNCHANGED <<clock, nextFire, running, cache, cache_expiry,
                   whole, lastGet, policy, fn>>

\* fetch_channels answering, when the channel fetch gave nothing, with what
\* the cache holds by then.
Returned_FromCache(h, l) ==
    IF l.channels = None
    THEN (IF IPTV_CHANNELS_URL \in DOMAIN cache
          THEN Deref(h, cache[IPTV_CHANNELS_URL]) ELSE <<>>)
    ELSE IF Falsy(h, l.channels) \/ Falsy(h, l.streams) THEN <<>>
    ELSE ViewOf(h, l)

\* The view fetch_channels returned to its caller: the joined list, or []
\* when the run returned early.
Returned(h, l) ==
    IF Falsy(h, l.channels) \/ Falsy(h, l.streams) THEN <<>> ELSE ViewOf(h, l)

\* lines 164-174 and 182-193: the handler builds its response from the view.
Respond(t) ==
    /\ Alive(t) /\ pc[t] = "respond"
    /\ loc' = [loc EXCEPT ![t].resp =
                   IF loc[t].kind = "catalog"
                   THEN [status |-> 200,
                         metas |-> catalog_metas(Returned(heap, loc[t]))]
                   ELSE [status |-> 200,
                         streams |-> stream_lookup(Returned(heap, loc[t]), loc[t].id)]]
    /\ pc' = [pc EXCEPT ![t] = "done"]
    /\ UNCHANGED <<clock, nextFire, running, cache, cache_expiry, heap,
                   whole, lastGet, policy, fn>>

\* The run is over: the response is sent, the locals are dropped.
Finish(t) ==
    /\ Alive(t) /\ pc[t] = "done"
    /\ pc' = [pc EXCEPT ![t] = "idle"]
    /\ Relocate(cache, [loc EXCEPT ![t] = NoLocals], heap)
    /\ UNCHANGED <<clock, nextFire, running, cache_expiry,
                   whole, lastGet, policy, fn>>

Step(t) ==
    \/ L27(t)
    \/ \E outcome \in Outcomes, version \in Versions(U(t)) : L30(t, outcome, version)
    \/ L32(t) \/ L39(t) \/ L40(t) \/ L45(t)
    \/ L101(t) \/ Finish(t)

Next ==
    \/ MainLoad
    \/ \E type \in {"tv", "movie"} : Catalog(type, "iptv_catalog")
    \/ \E type \in {"tv", "movie"}, id \in {"ch1", "ch2"} : Stream(type, id)
    \/ \E t \in Threads : Respond(t)
    \/ Fire
    \/ Tick
    \/ \E t \in Threads : Step(t)

Spec == Init /\ [][Next]_vars

\* ------------------------------------------------- the scheduler for ever
\* A time of the state counted from one interval later.
Earlier(x) == IF x >= TickLen THEN x - TickLen ELSE 0

\* Time passes beyond MaxTime: the step of Tick, after which every time of
\* the state (the clock, the next run time, the expiries, the `now` of the
\* calls) is counted from one interval later, so that the clock stays within
\* MaxTime.  MaxTime bounds the initial load, which is over by then, and the
\* step waits for a call of the job whose `now` is older than that interval;
\* an expiry that old is in the past for every call and stays so.
Rebase ==
    /\ running /\ clock < nextFire /\ clock + TickLen > MaxTime
    /\ pc["w1"] = "idle"
    /\ pc["sched"] \in {"L30", "L39", "L40"} => loc["sched"].now >= TickLen
    /\ nextFire' = nextFire - TickLen
    /\ cache_expiry' = [u \in DOMAIN cache_expiry |-> Earlier(cache_expiry[u])]
    /\ loc' = [t \in Threads |-> [loc[t] EXCEPT !.now = Earlier(@)]]
    /\ UNCHANGED <<clock, running, cache, heap, pc, whole, lastGet, policy, fn>>

\* The process running for ever, with no query coming in.
LiveNext ==
    \/ MainLoad
    \/ Fire
    \/ Tick
    \/ Rebase
    \/ \E t \in Threads : Step(t)

\* The initial load starts, time passes, the scheduler fires the job when it
\* is due, and a thread that can take a step takes one (every request gets
\* its answer).
LiveSpec ==
    /\ Init /\ [][LiveNext]_vars
    /\ WF_vars(MainLoad)
    /\ WF_vars(Tick \/ Rebase)
    /\ WF_vars(Fire)
    /\ \A t \in Threads : WF_vars(Step(t))

\* ------------------------------------------------- the pure functions
\* filter_channels and match_streams_to_channels applied alone, to every
\* input up to the bounds and, for the filter, under every policy below.
Range(list) == {list[i] : i \in 1..Len(list)}

SeqsUpTo(S, n) == UNION {[1..k -> S] : k \in 0..n}

Policies ==
    [countries : {<<>>, <<"US">>},
     languages : {ModulePolicy.languages, <<"jpn">>},
     excluded  : {<<>>, <<"xxx">>}]

FilterInputs ==
    {[id |-> "ch1"] @@ c @@ l @@ k :
        c \in {<<>>, [country |-> "US"], [country |-> "IR"]},
        l \in {<<>>, [languages |-> <<>>], [languages |-> <<"jpn", "eng">>],
               [languages |-> <<"jpn">>]},
        k \in {<<>>, [categories |-> <<"news">>],
               [categories |-> <<"news", "xxx", "xxx">>]}}

\* A channel dict the join meets is one upstream sent or one an earlier run
\* already joined: the cached dicts are the ones the join mutates.
JoinInputs ==
    UNION {{[id |-> i],
            [id |-> i, streams |-> <<[channel |-> i, url |-> "http://old"]>>]} :
           i \in {"ch1", "ch2"}}

StreamInputs ==
    {[channel |-> "ch1", url |-> "http://a"],
     [channel |-> "ch1", url |-> "http://b", title |-> "B"],
     [channel |-> "ch3", url |-> "http://c"],
     [url |-> "http://d"]}

FnInit ==
    /\ ProgramInit
    /\ \/ /\ policy \in Policies
          /\ \E cs \in SeqsUpTo(FilterInputs, MaxChans) :
                fn = [op |-> "filter", done |-> FALSE, channels |-> cs,
                      streams |-> <<>>, out |-> <<>>]
       \/ /\ policy = ModulePolicy
          /\ \E cs \in SeqsUpTo(JoinInputs, MaxChans),
                ss \in SeqsUpTo(StreamInputs, MaxStreams) :
                fn = [op |-> "join", done |-> FALSE, channels |-> cs,
                      streams |-> ss, out |-> <<>>]

ApplyFilter ==
    /\ fn.op = "filter" /\ ~fn.done
    /\ fn' = [fn EXCEPT !.done = TRUE, !.out = filter_channels(fn.channels, policy)]
    /\ UNCHANGED <<clock, nextFire, running, cache, cache_expiry, heap, pc, loc,
                   whole, lastGet, policy>>

ApplyJoin ==
    /\ fn.op = "join" /\ ~fn.done
    /\ fn' = [fn EXCEPT !.done = TRUE,
                 !.out = match_streams_to_channels(fn.channels, fn.streams)]
    /\ UNCHANGED <<clock, nextFire, running, cache, cache_expiry, heap, pc, loc,
                   whole, lastGet, policy>>

FnNext == ApplyFilter \/ ApplyJoin

FnSpec == FnInit /\ [][FnNext]_vars

\* ========================================================== properties
\* The value the caller of fetch_with_cache(u) received.
RetVal(l, u) == IF u = IPTV_CHANNELS_URL THEN l.channels ELSE l.streams

\* Thread t takes its step at position p.
Takes(t, p) == pc[t] = p /\ pc'[t] # p

\* The streams of `streams` whose channel key is `id`, in their order.
StreamsFor(streams, id) ==
    SelectSeq(streams, LAMBDA s : "channel" \in DOMAIN s /\ s.channel = id)

\* C1: No call observes a half-written cache entry: whenever a call is about
\* to read the entry of its url (the test of line 30, the reads of lines 32
\* and 45) and the entry has a payload, it has an expiry too, and both were
\* written by one and the same fetch.
C1_NoHalfWrittenRead ==
    \A t \in Threads :
        pc[t] \in {"L30", "L32", "L45"} /\ U(t) \in DOMAIN cache
            => U(t) \in DOMAIN cache_expiry /\ whole[U(t)]

\* C2: Fresh-cache property: a call made after another call returned, within
\* the expiry of the entry and with no store in between, takes no network
\* access (its test sends it to line 32) and returns records identical to
\* those the earlier call returned.
InWindow(t) ==
    /\ t \in lastGet[U(t)].since
    /\ U(t) \in DOMAIN cache_expiry
    /\ loc[t].now < cache_expiry[U(t)]

C2_FreshCache ==
    [][\A t \in Threads :
          /\ Takes(t, "L30") /\ InWindow(t) => pc'[t] = "L32"
          /\ Takes(t, "L32") /\ InWindow(t)
                => lastGet'[U(t)].val = lastGet[U(t)].val]_vars

\* C3: Stale-fallback property: when the fetch failed and the url has an
\* entry, fresh or stale, the call returns the entry's payload, its records
\* as they are in the cache, and not None.
C3_StaleFallback ==
    [][\A t \in Threads :
          Takes(t, "L45") /\ U(t) \in DOMAIN cache
              => /\ RetVal(loc'[t], U(t)) = cache[U(t)]
                 /\ RetVal(loc'[t], U(t)) # None
                 /\ lastGet'[U(t)].val = Deref(heap, cache[U(t)])
                 /\ loc'[t].exc = "none"]_vars

C3_Witness ==
    \E t \in Threads :
        /\ pc[t] = "L45"
        /\ U(t) \in DOMAIN cache /\ U(t) \in DOMAIN cache_expiry
        /\ cache_expiry[U(t)] <= loc[t].now

\* C4: Cold-miss property: when the fetch failed and the url never had an
\* entry, the call returns None (no records, and the mark of the failure),
\* nothing is raised, and fetch_channels returns the empty list.
C4_ColdMiss ==
    [][\A t \in Threads :
          Takes(t, "L45") /\ U(t) \notin DOMAIN cache
              => /\ RetVal(loc'[t], U(t)) = None
                 /\ loc'[t].exc = "none" /\ running' = running
                 /\ pc'[t] = AfterPipeline(loc[t].kind)
                 /\ Returned(heap', loc'[t]) = <<>>]_vars

C4_Witness ==
    \E t \in Threads : pc[t] = "L45" /\ U(t) \notin DOMAIN cache

\* C5: A catalog or stream query never ends in an error: no exception of the
\* fetch cache or the pipeline reaches the handler.
C5_QueriesNeverFail ==
    \A t \in Threads :
        loc[t].kind \in {"catalog", "stream"} => loc[t].resp.status # 500

\* C6: A failing run never ends the scheduler: an exception in a scheduled
\* run ends that run only, and until the process shuts down a scheduled run
\* starts again and again, whatever the runs before it did.
RunStarts == pc["sched"] = "L27" /\ loc["sched"].url = IPTV_CHANNELS_URL

RunFailed ==
    /\ pc["sched"] = "done"
    /\ loc["sched"].exc # "none" \/ Returned(heap, loc["sched"]) = <<>>

C6_SchedulerSurvives ==
    /\ []<>(RunStarts \/ ~running)
    /\ RunFailed ~> (RunStarts \/ ~running)

C6_Witness ==
    /\ running /\ pc["sched"] = "done" /\ loc["sched"].exc = "KeyError"

\* C7: Join correctness: after the join, the streams of every channel are
\* exactly the streams whose channel key is its id, in their order (absent
\* or empty when there are none).
C7_JoinCorrect ==
    fn.op = "join" /\ fn.done =>
        \A i \in 1..Len(fn.channels) :
            Get(fn.out[i], "streams", <<>>) = StreamsFor(fn.streams, fn.channels[i].id)

\* C8: Filter correctness: a channel is in the output of the filter iff (no
\* country is listed or its country is listed) and it has a listed language
\* and it has no excluded category; a missing list counts as empty.
ClaimedToPass(c, pol) ==
    /\ Range(pol.countries) = {}
          \/ ("country" \in DOMAIN c /\ c.country \in Range(pol.countries))
    /\ Range(Get(c, "languages", <<>>)) \cap Range(pol.languages) # {}
    /\ Range(Get(c, "categories", <<>>)) \cap Range(pol.excluded) = {}

C8_FilterCorrect ==
    fn.op = "filter" /\ fn.done =>
        \A i \in 1..Len(fn.channels) :
            fn.channels[i] \in Range(fn.out) <=> ClaimedToPass(fn.channels[i], policy)

C8_Witness ==
    /\ fn.op = "filter" /\ fn.done
    /\ policy.countries # <<>> /\ policy.excluded # <<>>
    /\ Len(fn.channels) = 2 /\ Len(fn.out) = 1
    /\ "categories" \in DOMAIN fn.out[1]
    /\ "languages" \notin DOMAIN fn.channels[1]

\* C9: A successful fetch stores the entry (payload = the fetched list,
\* expiry = the time of the call + CACHE_TTL) and returns the list; an entry
\* is fresh for a call exactly when the call's time is before the expiry.
C9_StoreOnSuccess ==
    [][\A t \in Threads :
          /\ Takes(t, "L40")
                => /\ Deref(heap', cache'[U(t)]) = Deref(heap, loc[t].data)
                   /\ cache_expiry'[U(t)] = loc[t].now + CACHE_TTL
                   /\ Deref(heap', RetVal(loc'[t], U(t))) = Deref(heap, loc[t].data)
          /\ Takes(t, "L30") /\ U(t) \in DOMAIN cache /\ U(t) \in DOMAIN cache_expiry
                => (pc'[t] = "L32" <=> loc[t].now < cache_expiry[U(t)])]_vars

\* C10: The stream query for id X answers with the {title, url} of the
\* streams, of the stream list its own run fetched, whose channel key is X,
\* in order, and with the empty list when X is not in the view of the run.
StreamsClaimed(h, l) ==
    IF \E j \in 1..Len(Returned(h, l)) : Returned(h, l)[j].id = l.id
    THEN streams_data(StreamsFor(Deref(h, l.streams), l.id))
    ELSE <<>>

C10_StreamListing ==
    \A t \in Threads :
        pc[t] = "done" /\ loc[t].kind = "stream" /\ loc[t].resp.status = 200
            => loc[t].resp.streams = StreamsClaimed(heap, loc[t])

\* C11: End-to-end cold failure: when the channel fetch fails and the channel
\* resource has no entry, fetch_channels returns the empty list with no
\* stream fetch, and the catalog or stream query of that run answers with an
\* empty metas or streams list.
ColdChannelFailure(t) ==
    /\ loc[t].url = IPTV_CHANNELS_URL /\ loc[t].channels = None
    /\ loc[t].exc = "none"

C11_ColdFailureEndToEnd ==
    [][\A t \in Threads :
          /\ Takes(t, "L45") /\ U(t) = IPTV_CHANNELS_URL
                /\ IPTV_CHANNELS_URL \notin DOMAIN cache
                => /\ ColdChannelFailure(t)'
                   /\ pc'[t] = AfterPipeline(loc[t].kind)
                   /\ Returned(heap', loc'[t]) = <<>>
          /\ Takes(t, "respond") /\ ColdChannelFailure(t)
                => loc'[t].resp = IF loc[t].kind = "catalog"
                                  THEN [status |-> 200, metas |-> <<>>]
                                  ELSE [status |-> 200, streams |-> <<>>]]_vars

C11_Witness ==
    \E t \in Threads :
        /\ pc[t] = "done" /\ loc[t].kind = "stream" /\ ColdChannelFailure(t)
        /\ loc[t].resp = [status |-> 200, streams |-> <<>>]
        /\ IPTV_CHANNELS_URL \in DOMAIN cache

\* C12: The view is recomputed in full on every run: in the view a run
\* returns, the streams of each channel are exactly the streams of the stream
\* payload of that run whose channel key is its id (none when no stream
\* matches), whatever an earlier run attached.
C12_ViewRecomputed ==
    [][\A t \in Threads :
          Takes(t, "L101") =>
              \A j \in 1..Len(ViewOf(heap', loc'[t])) :
                  Get(ViewOf(heap', loc'[t])[j], "streams", <<>>)
                      = StreamsFor(Deref(heap, loc[t].streams),
                                   ViewOf(heap', loc'[t])[j].id)]_vars

\* C13: Entries are written only by the fetch cache: the filter and join
\* step of a run and the handlers leave every stored payload, the fields of
\* each cached channel record included, and every stored expiry unchanged.
C13_PipelineLeavesCache ==
    [][\A t \in Threads :
          Takes(t, "L101") \/ Takes(t, "respond") =>
              /\ cache_expiry' = cache_expiry
              /\ DOMAIN cache' = DOMAIN cache
              /\ \A u \in DOMAIN cache :
                    Deref(heap', cache'[u]) = Deref(heap, cache[u])]_vars

\* C14: Short-circuit ordering: a run turns to the stream resource only once
\* its channel call has returned a non-empty list; when the channel call
\* returns None or an empty list the run returns the empty view, requests no
\* stream, and no step it takes changes the entry of the stream resource.
StreamEntry == <<Get(cache, IPTV_STREAMS_URL, None), Get(cache_expiry, IPTV_STREAMS_URL, None)>>

C14_ShortCircuit ==
    [][\A t \in Threads :
          /\ loc'[t].url = IPTV_STREAMS_URL => ~Falsy(heap', loc'[t].channels)
          /\ pc'[t] # pc[t] /\ U(t) = IPTV_CHANNELS_URL
                /\ pc[t] \in {"L32", "L40", "L45"}
                /\ Falsy(heap', loc'[t].channels)
                => /\ pc'[t] = AfterPipeline(loc[t].kind)
                   /\ loc'[t].url = IPTV_CHANNELS_URL /\ loc'[t].streams = None
                   /\ Returned(heap', loc'[t]) = <<>>
          /\ pc'[t] # pc[t] /\ U(t) = IPTV_CHANNELS_URL
                => StreamEntry' = StreamEntry]_vars

C14_Witness ==
    \E t \in Threads :
        /\ pc[t] = "done" /\ loc[t].kind = "catalog"
        /\ loc[t].url = IPTV_CHANNELS_URL
        /\ loc[t].channels # None /\ Falsy(heap, loc[t].channels)
        /\ IPTV_STREAMS_URL \in DOMAIN cache

\* C15: A soft-degraded fetch does not abort the run: when the fetch of the
\* channel or stream resource fails and its entry, even stale, has records,
\* the run goes on with those records (to the stream call, or to filter and
\* join, which return the view) and no exception ends it; a failed fetch
\* ends the run with the empty view only when the resource has no entry or
\* an entry with no record.
HasRecords(u) == u \in DOMAIN cache /\ ~Falsy(heap, cache[u])

C15_SoftDegraded ==
    [][\A t \in Threads :
          /\ Takes(t, "L45") /\ HasRecords(U(t))
                => /\ RetVal(loc'[t], U(t)) = cache[U(t)]
                   /\ pc'[t] = IF U(t) = IPTV_CHANNELS_URL THEN "L27" ELSE "L101"
                   /\ U(t) = IPTV_CHANNELS_URL => loc'[t].url = IPTV_STREAMS_URL
          /\ Takes(t, "L45") /\ pc'[t] = AfterPipeline(loc[t].kind)
                => ~HasRecords(U(t))
          /\ Takes(t, "L101")
                => /\ pc'[t] = AfterPipeline(loc[t].kind)
                   /\ Len(Returned(heap', loc'[t]))
                         = Len(filter_channels(heap[loc[t].channels], policy))
          /\ loc'[t].degraded => loc'[t].exc = "none"]_vars

\* C16: A cache entry, once written, is never discarded except by
\* overwrite: over every step of the program a resource that has an entry
\* keeps one, and the payload stored for it changes only by the store of
\* line 39 of a successful fetch of that resource, so that it is always the
\* payload the most recent storing fetch wrote.
C16_EntryKept ==
    [][\A u \in DOMAIN cache :
          /\ u \in DOMAIN cache'
          /\ Deref(heap', cache'[u]) # Deref(heap, cache[u])
                => \E t \in Threads : Takes(t, "L39") /\ U(t) = u]_vars

\* C17: filter_channels only selects: its output is a subsequence of its
\* input in the same relative order, every output record being an input
\* record with every field as it was given (none created, none changed).
IsSelection(out, channels) ==
    \E f \in [1..Len(out) -> 1..Len(channels)] :
        /\ \A j, k \in 1..Len(out) : j < k => f[j] < f[k]
        /\ \A j \in 1..Len(out) : out[j] = channels[f[j]]

C17_FilterSelects ==
    fn.op = "filter" /\ fn.done => IsSelection(fn.out, fn.channels)

C17_Witness ==
    /\ fn.op = "filter" /\ fn.done
    /\ Len(fn.channels) = 2 /\ fn.channels[1] # fn.channels[2]
    /\ \/ fn.out = <<fn.channels[2]>>
       \/ fn.out = fn.channels

\* C18: A failed network fetch leaves the cache unchanged: the steps of a
\* call whose request fails (the failing request and the except branch)
\* change neither the payload nor the expiry stored for any url, nor add or
\* remove an entry; the expiry is not extended, and a call whose test finds
\* no entry, or an entry whose expiry has passed, goes to the network.
Expired(t) ==
    \/ U(t) \notin DOMAIN cache
    \/ U(t) \in DOMAIN cache_expiry /\ cache_expiry[U(t)] <= loc[t].now

C18_FailureLeavesCache ==
    [][\A t \in Threads :
          /\ (Takes(t, "L30") /\ pc'[t] = "L45") \/ Takes(t, "L45")
                => /\ cache' = cache
                   /\ cache_expiry' = cache_expiry
                   /\ \A u \in DOMAIN cache :
                         Deref(heap', cache'[u]) = Deref(heap, cache[u])
          /\ Takes(t, "L30") /\ Expired(t) => pc'[t] \in {"L39", "L45"}]_vars

C18_Witness ==
    \E t \in Threads :
        /\ loc[t].degraded /\ loc[t].url = IPTV_STREAMS_URL /\ pc[t] = "L30"
        /\ IPTV_CHANNELS_URL \in DOMAIN cache_expiry
        /\ cache_expiry[IPTV_CHANNELS_URL] <= loc[t].now
        /\ Expired(t)

\* C19: The stored entry never regresses under concurrent fetches: over
\* every step, a url that has an expiry keeps one and the expiry stored for
\* it never decreases, and a call that took its time before the call that
\* stored the present expiry did (its now + CACHE_TTL is smaller than the
\* stored expiry) overwrites neither the payload nor the expiry.
Outdated(t) ==
    /\ U(t) \in DOMAIN cache_expiry
    /\ loc[t].now + CACHE_TTL < cache_expiry[U(t)]

C19_NoRegression ==
    [][/\ \A u \in DOMAIN cache_expiry :
             u \in DOMAIN cache_expiry' /\ cache_expiry'[u] >= cache_expiry[u]
       /\ \A t \in Threads :
             (Takes(t, "L39") \/ Takes(t, "L40")) /\ Outdated(t)
                 => /\ cache_expiry' = cache_expiry
                    /\ Deref(heap', cache'[U(t)]) = Deref(heap, cache[U(t)])]_vars

====
